---- MODULE Spec2Model ----
(***************************************************************************)
(* Model of the S3-backed document repository of packages/s3-repository:   *)
(* the paginated key lister, the date partitioner, the metadata locator    *)
(* and the repository facade (get / save / delete / list).                 *)
(*                                                                         *)
(* Strings are sequences of one-character strings, so that startsWith,     *)
(* endsWith, concatenation, JSON.stringify and JSON.parse are computed.    *)
(* All repositories share one bucket; the bucket name is not modelled.     *)
(***************************************************************************)
EXTENDS Integers, Sequences, FiniteSets, TLC

VARIABLES s3, now, repos, last, calls, task, handler, norm

\* s3    : per client binding, the objects of the bucket in key order; an object
\*         is [Key, Body, Metadata, History], where History is read by no
\*         operation: the repository whose save wrote the object (0: put
\*         directly), the clock reading of that save and the payload saved
\* now   : the clock reading new Date() takes
\* repos : the repositories createS3Repository built
\* last  : the last repository call, its arguments and what it handed back
\* calls : the repository calls in flight, each at the blob-store command it
\*         waits for, with the commands it has sent so far
\* task  : a TaskDefinition construct of cdk-patterns
\* handler : an invocation of the lambda handler sqsToSfnHandler builds, with
\*           the executions the step function has started for it
\* norm  : a prefix, what normalizePrefix makes of it, and of that
vars == <<s3, now, repos, last, calls, task, handler, norm>>

(***************************************************************************)
(* Bounds                                                                  *)
(***************************************************************************)
\* largest page a ListObjectsV2 response may carry
MaxPageSize == 2
\* objects the stores hold at most, all together
MaxObjects == 2
\* containers and shared volumes added to a task definition at most
MaxContainers == 2
MaxVolumes == 2
\* records of an SQS event at most
MaxRecords == 3
\* characters of a prefix at most
MaxPrefixLen == 6
\* objects put into the stores before a delete that is cut short, at most
MaxPreloaded == 3

(***************************************************************************)
(* Strings                                                                 *)
(***************************************************************************)
\* stands for JavaScript's undefined where a string is optional
Undefined == <<"undefined">>

\* the characters in use, in code-point order (S3 lists keys in that order)
Alphabet ==
  <<"\"", ",", "/", "0", "1", "2", "3", "4", "5", "6", "7", "8", "9", ":", "=",
    "\\", "a", "b", "d", "e", "h", "i", "k", "l", "m", "n", "o", "r", "s", "t",
    "u", "x", "y", "z", "{", "}">>

Ord(c) == CHOOSE i \in 1..Len(Alphabet) : Alphabet[i] = c

Digit == <<"0", "1", "2", "3", "4", "5", "6", "7", "8", "9">>

IsDigit(c) == \E i \in 1..10 : Digit[i] = c

DigitValue(c) == (CHOOSE i \in 1..10 : Digit[i] = c) - 1

startsWith(value, p) == Len(p) <= Len(value) /\ SubSeq(value, 1, Len(p)) = p

endsWith(value, p) ==
  Len(p) <= Len(value) /\ SubSeq(value, Len(value) - Len(p) + 1, Len(value)) = p

Drop(value, n) == SubSeq(value, n + 1, Len(value))

\* s < t in code-point lexicographic order, given that they agree before i
RECURSIVE LexLessFrom(_, _, _)
LexLessFrom(s, t, i) ==
  IF i > Len(s) THEN i <= Len(t)
  ELSE IF i > Len(t) THEN FALSE
  ELSE IF s[i] = t[i] THEN LexLessFrom(s, t, i + 1)
  ELSE Ord(s[i]) < Ord(t[i])

LexLess(s, t) == LexLessFrom(s, t, 1)

\* the template literal `${n}` of a non-negative integer
RECURSIVE NumberToString(_)
NumberToString(n) ==
  IF n < 10 THEN <<Digit[n + 1]>>
  ELSE NumberToString(n \div 10) \o <<Digit[(n % 10) + 1]>>

RECURSIVE join(_, _)
join(sep, parts) ==
  IF parts = <<>> THEN <<>>
  ELSE IF Len(parts) = 1 THEN parts[1]
  ELSE parts[1] \o sep \o join(sep, Tail(parts))

(***************************************************************************)
(* JSON values, JSON.stringify and JSON.parse                              *)
(***************************************************************************)
JNull == [t |-> "null", b |-> FALSE, n |-> 0, s |-> <<>>, o |-> <<>>]
JBool(v) == [t |-> "bool", b |-> v, n |-> 0, s |-> <<>>, o |-> <<>>]
JNum(v) == [t |-> "num", b |-> FALSE, n |-> v, s |-> <<>>, o |-> <<>>]
JStr(v) == [t |-> "str", b |-> FALSE, n |-> 0, s |-> v, o |-> <<>>]
\* an object: a sequence of <<name, scalar value>> members
JObj(members) == [t |-> "obj", b |-> FALSE, n |-> 0, s |-> <<>>, o |-> members]

\* JavaScript truthiness of a JSON value (what lodash compact keeps)
Truthy(v) ==
  CASE v.t = "null" -> FALSE
    [] v.t = "bool" -> v.b
    [] v.t = "num" -> v.n # 0
    [] v.t = "str" -> v.s # <<>>
    [] OTHER -> TRUE

RECURSIVE Escape(_)
Escape(str) ==
  IF str = <<>> THEN <<>>
  ELSE IF Head(str) \in {"\"", "\\"} THEN <<"\\", Head(str)>> \o Escape(Tail(str))
  ELSE <<Head(str)>> \o Escape(Tail(str))

Quote(str) == <<"\"">> \o Escape(str) \o <<"\"">>

StringifyScalar(v) ==
  CASE v.t = "null" -> <<"n", "u", "l", "l">>
    [] v.t = "bool" -> IF v.b THEN <<"t", "r", "u", "e">> ELSE <<"f", "a", "l", "s", "e">>
    [] v.t = "num" -> NumberToString(v.n)
    [] OTHER -> Quote(v.s)

RECURSIVE StringifyMembers(_)
StringifyMembers(ms) ==
  IF ms = <<>> THEN <<>>
  ELSE Quote(ms[1][1]) \o <<":">> \o StringifyScalar(ms[1][2])
       \o (IF Len(ms) > 1 THEN <<",">> ELSE <<>>) \o StringifyMembers(Tail(ms))

JSONstringify(v) ==
  IF v.t = "obj" THEN <<"{">> \o StringifyMembers(v.o) \o <<"}">>
  ELSE StringifyScalar(v)

\* a parse result: ok, the value, and the text left over
Parsed(v, rest) == [ok |-> TRUE, v |-> v, rest |-> rest]
SyntaxError == [ok |-> FALSE, v |-> JNull, rest |-> <<>>]

\* the characters of a string literal after its opening quote
RECURSIVE ParseChars(_, _)
ParseChars(txt, acc) ==
  IF txt = <<>> THEN SyntaxError
  ELSE IF Head(txt) = "\"" THEN Parsed(JStr(acc), Tail(txt))
  ELSE IF Head(txt) = "\\"
    THEN IF Len(txt) >= 2 /\ txt[2] \in {"\"", "\\"}
           THEN ParseChars(Drop(txt, 2), Append(acc, txt[2]))
           ELSE SyntaxError
  ELSE ParseChars(Tail(txt), Append(acc, Head(txt)))

RECURSIVE ParseDigits(_, _)
ParseDigits(txt, acc) ==
  IF txt # <<>> /\ IsDigit(Head(txt))
    THEN ParseDigits(Tail(txt), 10 * acc + DigitValue(Head(txt)))
    ELSE Parsed(JNum(acc), txt)

ParseScalar(txt) ==
  IF startsWith(txt, <<"n", "u", "l", "l">>) THEN Parsed(JNull, Drop(txt, 4))
  ELSE IF startsWith(txt, <<"t", "r", "u", "e">>) THEN Parsed(JBool(TRUE), Drop(txt, 4))
  ELSE IF startsWith(txt, <<"f", "a", "l", "s", "e">>) THEN Parsed(JBool(FALSE), Drop(txt, 5))
  ELSE IF txt # <<>> /\ Head(txt) = "\"" THEN ParseChars(Tail(txt), <<>>)
  ELSE IF txt # <<>> /\ Head(txt) = "0" THEN Parsed(JNum(0), Tail(txt))
  ELSE IF txt # <<>> /\ IsDigit(Head(txt)) THEN ParseDigits(txt, 0)
  ELSE SyntaxError

\* the members of an object after its opening brace or after a comma
RECURSIVE ParseMembers(_, _)
ParseMembers(txt, acc) ==
  IF txt = <<>> \/ Head(txt) # "\"" THEN SyntaxError
  ELSE LET name == ParseChars(Tail(txt), <<>>) IN
    IF ~name.ok \/ name.rest = <<>> \/ Head(name.rest) # ":" THEN SyntaxError
    ELSE LET val == ParseScalar(Tail(name.rest)) IN
      IF ~val.ok \/ val.rest = <<>> THEN SyntaxError
      ELSE LET acc2 == Append(acc, <<name.v.s, val.v>>) IN
        IF Head(val.rest) = "}" THEN Parsed(JObj(acc2), Tail(val.rest))
        ELSE IF Head(val.rest) = "," THEN ParseMembers(Tail(val.rest), acc2)
        ELSE SyntaxError

ParseValue(txt) ==
  IF txt # <<>> /\ Head(txt) = "{"
    THEN IF Len(txt) >= 2 /\ txt[2] = "}" THEN Parsed(JObj(<<>>), Drop(txt, 2))
         ELSE ParseMembers(Tail(txt), <<>>)
    ELSE ParseScalar(txt)

\* JSON.parse: the whole text must be one value
JSONparse(txt) ==
  LET whole(r) == IF r.ok /\ r.rest = <<>> THEN r ELSE SyntaxError
  IN whole(ParseValue(txt))

(***************************************************************************)
(* partitioning.ts                                                         *)
(***************************************************************************)
\* the instants the clock goes through, as the UTC fields a Date gives for them
\* (getUTCMonth counts from 0): 2024-12-31 and 2025-01-01
Calendar ==
  << [UTCFullYear |-> 2024, UTCMonth |-> 11, UTCDate |-> 31],
     [UTCFullYear |-> 2025, UTCMonth |-> 0, UTCDate |-> 1] >>

\* new Date() at clock reading t
NewDate(t) == Calendar[t]

\* getDatePartitions as it would be with the month as getUTCMonth gives it
getDatePartitions_ZeroBasedMonth(t) ==
  LET date == NewDate(t)
  IN << [name |-> <<"y", "e", "a", "r">>, value |-> NumberToString(date.UTCFullYear)],
        [name |-> <<"m", "o", "n", "t", "h">>, value |-> NumberToString(date.UTCMonth)],
        [name |-> <<"d", "a", "y">>, value |-> NumberToString(date.UTCDate)] >>

getDatePartitions(t) ==
  LET date == NewDate(t)
      year == date.UTCFullYear
      month == date.UTCMonth + 1
      day == date.UTCDate
  IN << [name |-> <<"y", "e", "a", "r">>, value |-> NumberToString(year)],
        [name |-> <<"m", "o", "n", "t", "h">>, value |-> NumberToString(month)],
        [name |-> <<"d", "a", "y">>, value |-> NumberToString(day)] >>

buildPartitionedPath(partitions) ==
  join(<<"/">>, [i \in 1..Len(partitions) |->
                   partitions[i].name \o <<"=">> \o partitions[i].value])

(***************************************************************************)
(* The blob store: one store per client binding.  "ambient" is what        *)
(* new S3Client({}) talks to; "custom" is a client handed in by the caller *)
(* that is bound to another endpoint.                                      *)
(***************************************************************************)
NewS3Client == "ambient"
NoClient == "none"
Clients == {"ambient", "custom"}

Ids == {<<"x">>, <<"y">>}

Payloads == {JObj(<< <<<<"k">>, JStr(<<"a", "\"">>)>> >>), JNum(0)}

Range(f) == {f[i] : i \in DOMAIN f}

HasKey(client, Key) == \E i \in 1..Len(s3[client]) : s3[client][i].Key = Key

ObjectAt(client, Key) ==
  s3[client][CHOOSE i \in 1..Len(s3[client]) : s3[client][i].Key = Key]

\* client.send(new ListObjectsV2Command({Bucket, Prefix, ContinuationToken}))
\* answered by a store that returns pages of maxKeys keys in key order; the
\* token of a truncated page stands for the last key it carried
ListObjectsV2(client, Prefix, ContinuationToken, maxKeys) ==
  LET after == SelectSeq(s3[client], LAMBDA object :
                 /\ Prefix = Undefined \/ startsWith(object.Key, Prefix)
                 /\ ContinuationToken = Undefined
                      \/ LexLess(ContinuationToken, object.Key))
      page == SubSeq(after, 1, IF Len(after) < maxKeys THEN Len(after) ELSE maxKeys)
  IN [Contents |-> [i \in 1..Len(page) |-> [Key |-> page[i].Key]],
      NextContinuationToken |->
        IF Len(after) > maxKeys THEN page[Len(page)].Key ELSE Undefined]

\* client.send(new HeadObjectCommand({Bucket, Key}))
HeadObject(client, Key) == [Metadata |-> ObjectAt(client, Key).Metadata]

\* client.send(new PutObjectCommand({Bucket, Key, Body, Metadata})): the store
\* after the put
PutObject(store, Key, Body, Metadata, History) ==
  LET object == [Key |-> Key, Body |-> Body, Metadata |-> Metadata, History |-> History]
      before == SelectSeq(store, LAMBDA o : LexLess(o.Key, Key))
      behind == SelectSeq(store, LAMBDA o : LexLess(Key, o.Key))
  IN before \o <<object>> \o behind

\* client.send(new DeleteObjectCommand({Bucket, Key})) for every key of Keys:
\* the store after the deletes (deleting a key that is not there succeeds)
DeleteObjects(store, Keys) == SelectSeq(store, LAMBDA o : o.Key \notin Keys)

(***************************************************************************)
(* list-object-keys.ts                                                     *)
(***************************************************************************)
RECURSIVE listObjectKeysLoop(_, _, _, _, _)
listObjectKeysLoop(prefix, client, continuationToken, results, maxKeys) ==
  LET response == ListObjectsV2(client, prefix, continuationToken, maxKeys)
      results2 == results \o [i \in 1..Len(response.Contents) |->
                                response.Contents[i].Key]
  IN IF response.NextContinuationToken # Undefined
       THEN listObjectKeysLoop(prefix, client, response.NextContinuationToken,
                               results2, maxKeys)
       ELSE results2

listObjectKeys(prefix, client, maxKeys) ==
  listObjectKeysLoop(prefix, IF client = NoClient THEN NewS3Client ELSE client,
                     Undefined, <<>>, maxKeys)

(***************************************************************************)
(* find-objects-by-metadata.ts                                             *)
(***************************************************************************)
findObjectsByMetadata(prefix, clientOption, key, value, maxKeys) ==
  LET client == IF clientOption = NoClient THEN NewS3Client ELSE clientOption
      allKeys == listObjectKeys(prefix, client, maxKeys)
  IN SelectSeq(allKeys, LAMBDA candidate :
                 <<key, value>> \in HeadObject(client, candidate).Metadata)

normalizePrefix(prefix) ==
  IF prefix = Undefined THEN <<>>
  ELSE IF endsWith(prefix, <<"/">>) THEN prefix
  ELSE prefix \o <<"/">>

\* what an operation hands back: a returned value or a thrown error
Returned(v) == [threw |-> FALSE, error |-> <<>>, value |-> v]
Thrown(e) == [threw |-> TRUE, error |-> e, value |-> JNull]

MultipleObjectsError(id) == <<"Multiple objects found with id: ">> \o id
JSONSyntaxError == <<"SyntaxError">>

\* deleteObject as it would be if it rejected duplicates the way fetchById does
deleteObject_RejectsDuplicates(client, prefix, id, maxKeys) ==
  LET remove(keys) ==
        IF Len(keys) > 1
          THEN [keys |-> keys, sent |-> <<>>, result |-> Thrown(MultipleObjectsError(id))]
          ELSE [keys |-> keys, sent |-> keys, result |-> Returned(JNull)]
  IN remove(findObjectsByMetadata(prefix, NoClient, "id", id, maxKeys))

\* the keys located for id, and the keys a DeleteObjectCommand is sent for
deleteObject(client, prefix, id, maxKeys) ==
  LET remove(keys) == [keys |-> keys, sent |-> keys, result |-> Returned(JNull)]
  IN remove(findObjectsByMetadata(prefix, NoClient, "id", id, maxKeys))

fetchByKey(client, key) ==
  IF ~HasKey(client, key) THEN Returned(JNull)
  ELSE LET document(parsed) ==
             IF parsed.ok THEN Returned(parsed.v) ELSE Thrown(JSONSyntaxError)
       IN document(JSONparse(ObjectAt(client, key).Body))

\* fetchById as it would be without the check for duplicates
fetchById_FirstMatch(client, prefix, id, maxKeys) ==
  LET fetch(keys) ==
        [keys |-> keys,
         result |-> IF Len(keys) = 0 THEN Returned(JNull)
                    ELSE fetchByKey(client, keys[1])]
  IN fetch(findObjectsByMetadata(prefix, NoClient, "id", id, maxKeys))

fetchById(client, prefix, id, maxKeys) ==
  LET fetch(keys) ==
        [keys |-> keys,
         result |-> IF Len(keys) = 0 THEN Returned(JNull)
                    ELSE IF Len(keys) > 1 THEN Thrown(MultipleObjectsError(id))
                    ELSE fetchByKey(client, keys[1])]
  IN fetch(findObjectsByMetadata(prefix, NoClient, "id", id, maxKeys))

\* saveObject as it would be if it left the id out of the metadata
saveObject_NoIdMetadata(client, prefix, id, data, t) ==
  LET prefixPart == IF prefix = Undefined THEN <<>> ELSE normalizePrefix(prefix)
      key == prefixPart \o buildPartitionedPath(
               getDatePartitions(t) \o <<[name |-> <<"i", "d">>, value |-> id]>>)
  IN [Key |-> key,
      Body |-> JSONstringify(data),
      Metadata |-> {}]

\* saveObject as it would be with a key made of the prefix and the id alone
saveObject_NoPartitions(client, prefix, id, data, t) ==
  LET prefixPart == IF prefix = Undefined THEN <<>> ELSE normalizePrefix(prefix)
      key == prefixPart \o buildPartitionedPath(<<[name |-> <<"i", "d">>, value |-> id]>>)
  IN [Key |-> key,
      Body |-> JSONstringify(data),
      Metadata |-> {<<"id", id>>}]

\* the key and the PutObjectCommand of a save at clock reading t
saveObject(client, prefix, id, data, t) ==
  LET prefixPart == IF prefix = Undefined THEN <<>> ELSE normalizePrefix(prefix)
      key == prefixPart \o buildPartitionedPath(
               getDatePartitions(t) \o <<[name |-> <<"i", "d">>, value |-> id]>>)
  IN [Key |-> key,
      Body |-> JSONstringify(data),
      Metadata |-> {<<"id", id>>}]

createS3Repository(options) ==
  [prefix |-> options.prefix,
   client |-> IF options.client = NoClient THEN NewS3Client ELSE options.client]

compact(values) == SelectSeq(values, Truthy)

\* createS3Repository(...).list
list(client, prefix, maxKeys) ==
  LET settle(keys, fetched, failed) ==
        [keys |-> keys,
         threw |-> failed # {},
         error |-> IF failed # {}
                     THEN fetched[CHOOSE i \in failed : \A j \in failed : i <= j].error
                     ELSE <<>>,
         values |-> IF failed # {} THEN <<>>
                    ELSE compact([i \in 1..Len(keys) |-> fetched[i].value])]
      promiseAll(keys, fetched) ==
        settle(keys, fetched, {i \in 1..Len(keys) : fetched[i].threw})
      fetchAll(keys) ==
        promiseAll(keys, [i \in 1..Len(keys) |-> fetchByKey(client, keys[i])])
  IN fetchAll(listObjectKeys(prefix, client, maxKeys))

(***************************************************************************)
(* cdk-patterns, stack.ts: TaskDefinition                                  *)
(***************************************************************************)
ContainerIds == {"c1", "c2"}
VolumeNames == {"v1", "v2"}
ContainerPaths == {"/p", "/q"}

\* the fields of a TaskDefinition after its constructor
NewTaskDefinition ==
  [containers |-> <<>>, sharedVolumes |-> <<>>, taskDefinition |-> [volumes |-> <<>>]]

\* ecs.ContainerDefinition.addMountPoints(...mountPoints)
addMountPoints(container, mountPoints) ==
  [container EXCEPT !.mountPoints = @ \o mountPoints]

\* addContainer as it would be without the mount points of the volumes shared so far
addContainer_NoMountPoints(t, id) ==
  [t EXCEPT !.containers = Append(@, [id |-> id, mountPoints |-> <<>>])]

addContainer(t, id) ==
  [t EXCEPT !.containers =
     Append(@, addMountPoints([id |-> id, mountPoints |-> <<>>], t.sharedVolumes))]

addSharedVolume(t, containerPath, name) ==
  LET sharedVolume ==
        [containerPath |-> containerPath, readOnly |-> FALSE, sourceVolume |-> name]
  IN [t EXCEPT !.taskDefinition.volumes = Append(@, [name |-> name]),
               !.containers = [i \in 1..Len(@) |-> addMountPoints(@[i], <<sharedVolume>>)],
               !.sharedVolumes = Append(@, sharedVolume)]

(***************************************************************************)
(* cdk-patterns, lambda/sqs-to-sfn-handler.ts: sqsToSfnHandler             *)
(***************************************************************************)
\* the bodies of SQS records: JSON texts and a text that is not JSON
RecordBodies == {JSONstringify(data) : data \in Payloads} \cup {<<"{">>}

\* the events a handler is invoked with
Events == UNION {[1..n -> [body : RecordBodies]] : n \in 0..MaxRecords}

\* options.getInput: the default, and a function of the caller's
GetInputOptions == {"identity", "constant"}

getInput(option, message) == IF option = "identity" THEN message ELSE JNull

\* a handler not invoked yet. Of an invocation: pc is "send" while a
\* StartExecutionCommand is awaited, i the index of its record, input its
\* input; started holds the inputs of the executions started
NoEvent ==
  [getInput |-> "identity", Records |-> <<>>, pc |-> "idle", i |-> 0, input |-> <<>>,
   threw |-> FALSE, error |-> <<>>, started |-> <<>>]

\* the loop as it would be if it passed over a record that does not parse
RECURSIVE nextRecord_SkipsMalformed(_, _)
nextRecord_SkipsMalformed(h, i) ==
  LET command(parsed) ==
        IF ~parsed.ok THEN nextRecord_SkipsMalformed(h, i + 1)
        ELSE [h EXCEPT !.pc = "send", !.i = i,
                       !.input = JSONstringify(getInput(h.getInput, parsed.v))]
  IN IF i > Len(h.Records) THEN [h EXCEPT !.pc = "done"]
     ELSE command(JSONparse(h.Records[i].body))

\* the for loop from record i up to its next await, or to its end
nextRecord(h, i) ==
  LET command(parsed) ==
        IF ~parsed.ok
          THEN [h EXCEPT !.pc = "done", !.threw = TRUE, !.error = JSONSyntaxError]
          ELSE [h EXCEPT !.pc = "send", !.i = i,
                         !.input = JSONstringify(getInput(h.getInput, parsed.v))]
  IN IF i > Len(h.Records) THEN [h EXCEPT !.pc = "done"]
     ELSE command(JSONparse(h.Records[i].body))

(***************************************************************************)
(* State                                                                   *)
(***************************************************************************)
Repos == {1, 2}

\* the options the two repositories are constructed with
Options ==
  {[r \in Repos |-> IF r = 1 THEN [prefix |-> <<"a">>, client |-> NoClient]
                    ELSE [prefix |-> <<"a", "b">>, client |-> NoClient]],
   [r \in Repos |-> IF r = 1 THEN [prefix |-> <<"a", "/">>, client |-> "custom"]
                    ELSE [prefix |-> Undefined, client |-> NoClient]]}

NoOp ==
  [op |-> "none", repo |-> 0, id |-> <<>>, data |-> JNull, threw |-> FALSE,
   error |-> <<>>, value |-> JNull, values |-> <<>>, key |-> <<>>,
   keys |-> <<>>, sent |-> <<>>]

\* the repository calls that may be in flight together
Invocations == {1, 2}

\* a call not made yet. Of a call under way: pc is the command it waits for
\* ("list", "head", "get", "delete") or "done"; token the continuation token
\* of the pending list command; allKeys the keys listed so far; i the index of
\* the key the pending command is for; keys the keys located so far; fetched
\* the documents read so far; sent the commands sent so far, each with the
\* client it went through; rejected whether the store failed a command. Of a
\* save: data the document, at the clock reading its key was built from, and
\* pc "put" while its one command is pending
NoCall ==
  [op |-> "none", repo |-> 0, id |-> <<>>, data |-> JNull, at |-> 0,
   pc |-> "idle", token |-> Undefined,
   allKeys |-> <<>>, i |-> 0, keys |-> <<>>, fetched |-> <<>>, threw |-> FALSE,
   error |-> <<>>, value |-> JNull, values |-> <<>>, sent |-> <<>>,
   rejected |-> FALSE]

Init ==
  /\ s3 = [c \in Clients |-> <<>>]
  /\ now = 1
  /\ repos \in {[r \in Repos |-> createS3Repository(o[r])] : o \in Options}
  /\ last = NoOp
  /\ calls = [c \in Invocations |-> NoCall]
  /\ task = NewTaskDefinition
  /\ handler = NoEvent
  /\ norm = [prefix |-> Undefined, normalized |-> <<>>, again |-> <<>>]

ObjectCount == Len(s3["ambient"]) + Len(s3["custom"])

HasRoom(client, Key) == HasKey(client, Key) \/ ObjectCount < MaxObjects

\* repository.save(id, data)
Save(r, id, data) ==
  LET client == repos[r].client
      command == saveObject(client, repos[r].prefix, id, data, now)
  IN /\ HasRoom(client, command.Key)
     /\ s3' = [s3 EXCEPT ![client] =
                 PutObject(@, command.Key, command.Body, command.Metadata,
                           [by |-> r, at |-> now, data |-> data])]
     /\ last' = [NoOp EXCEPT !.op = "save", !.repo = r, !.id = id, !.data = data,
                             !.key = command.Key]
     /\ UNCHANGED <<now, repos, calls, task, handler, norm>>

\* repository.get(id)
Get(r, id, maxKeys) ==
  LET record(got) ==
        [NoOp EXCEPT !.op = "get", !.repo = r, !.id = id, !.keys = got.keys,
                     !.threw = got.result.threw, !.error = got.result.error,
                     !.value = got.result.value]
  IN /\ last' = record(fetchById(repos[r].client, repos[r].prefix, id, maxKeys))
     /\ UNCHANGED <<s3, now, repos, calls, task, handler, norm>>

\* repository.delete(id)
Delete(r, id, maxKeys) ==
  LET client == repos[r].client
      run(del) ==
        /\ s3' = [s3 EXCEPT ![client] = DeleteObjects(@, Range(del.sent))]
        /\ last' = [NoOp EXCEPT !.op = "delete", !.repo = r, !.id = id,
                                !.keys = del.keys, !.sent = del.sent,
                                !.threw = del.result.threw, !.error = del.result.error]
  IN /\ run(deleteObject(client, repos[r].prefix, id, maxKeys))
     /\ UNCHANGED <<now, repos, calls, task, handler, norm>>

\* repository.list()
List(r, maxKeys) ==
  LET record(res) ==
        [NoOp EXCEPT !.op = "list", !.repo = r, !.keys = res.keys,
                     !.threw = res.threw, !.error = res.error, !.values = res.values]
  IN /\ last' = record(list(repos[r].client, repos[r].prefix, maxKeys))
     /\ UNCHANGED <<s3, now, repos, calls, task, handler, norm>>

\* the wall clock passes midnight UTC
Tick ==
  /\ now < Len(Calendar)
  /\ now' = now + 1
  /\ last' = NoOp
  /\ UNCHANGED <<s3, repos, calls, task, handler, norm>>

\* an object put into the bucket directly, not through a repository, at
\* either endpoint
InjectKeys == {<<"a", "/", "z">>}
Injected ==
  {[Body |-> <<"{">>, Metadata |-> {<<"id", <<"x">>>>}],
   [Body |-> JSONstringify(JStr(<<"z">>)), Metadata |-> {}]}

Inject(client, Key, object) ==
  /\ HasRoom(client, Key)
  /\ s3' = [s3 EXCEPT ![client] = PutObject(@, Key, object.Body, object.Metadata,
                                      [by |-> 0, at |-> now, data |-> JNull])]
  /\ last' = NoOp
  /\ UNCHANGED <<now, repos, calls, task, handler, norm>>

Next ==
  \/ \E r \in Repos, id \in Ids, data \in Payloads : Save(r, id, data)
  \/ \E r \in Repos, id \in Ids, maxKeys \in 1..MaxPageSize : Get(r, id, maxKeys)
  \/ \E r \in Repos, id \in Ids, maxKeys \in 1..MaxPageSize : Delete(r, id, maxKeys)
  \/ \E r \in Repos, maxKeys \in 1..MaxPageSize : List(r, maxKeys)
  \/ Tick

Spec == Init /\ [][Next]_vars

\* the repositories' calls together with direct puts into the bucket
NextInject ==
  \/ Next
  \/ \E client \in Clients, k \in InjectKeys, object \in Injected :
       Inject(client, k, object)

SpecInject == Init /\ [][NextInject]_vars

(***************************************************************************)
(* The repository calls command by command: every step is the store        *)
(* answering the command a call waits for, so that the commands of calls   *)
(* in flight together interleave in every order.                           *)
(***************************************************************************)
\* errors of client.send: HeadObject of a key that is not there, and a failure
\* of the transport
NotFound == <<"NotFound">>
TransportError == <<"TransportError">>

\* the client the list and head commands of a call go through: get and delete
\* locate with findObjectsByMetadata, to which they hand no client
locateClient(call) ==
  IF call.op = "list" THEN repos[call.repo].client ELSE NewS3Client

\* the command a call waits for
pending(call) ==
  CASE call.pc = "list" ->
         [cmd |-> "ListObjectsV2", client |-> locateClient(call), arg |-> call.token]
    [] call.pc = "head" ->
         [cmd |-> "HeadObject", client |-> locateClient(call), arg |-> call.allKeys[call.i]]
    [] call.pc = "get" ->
         [cmd |-> "GetObject", client |-> repos[call.repo].client,
          arg |-> IF call.op = "list" THEN call.allKeys[call.i] ELSE call.keys[1]]
    [] call.pc = "delete" ->
         [cmd |-> "DeleteObject", client |-> repos[call.repo].client,
          arg |-> call.keys[call.i]]
    [] call.pc = "put" ->
         [cmd |-> "PutObject", client |-> repos[call.repo].client,
          arg |-> saveObject(repos[call.repo].client, repos[call.repo].prefix,
                             call.id, call.data, call.at).Key]

\* the call once the command it waits for is sent and answered
answered(call) == [call EXCEPT !.sent = Append(@, pending(call))]

\* the call returns or throws
done(call, result) ==
  [call EXCEPT !.pc = "done", !.threw = result.threw, !.error = result.error,
               !.value = result.value]

\* fetchById and deleteObject once findObjectsByMetadata has returned keys
located(call, keys) ==
  IF call.op = "get"
    THEN IF Len(keys) = 0 THEN done([call EXCEPT !.keys = keys], Returned(JNull))
         ELSE IF Len(keys) > 1
           THEN done([call EXCEPT !.keys = keys], Thrown(MultipleObjectsError(call.id)))
         ELSE [call EXCEPT !.keys = keys, !.pc = "get", !.i = 1]
    ELSE IF Len(keys) = 0 THEN done([call EXCEPT !.keys = keys], Returned(JNull))
         ELSE [call EXCEPT !.keys = keys, !.pc = "delete", !.i = 1]

\* the call once listObjectKeys has returned allKeys
listed(call, allKeys) ==
  IF call.op = "list"
    THEN IF allKeys = <<>>
           THEN done([call EXCEPT !.allKeys = allKeys], Returned(JNull))
           ELSE [call EXCEPT !.allKeys = allKeys, !.pc = "get", !.i = 1]
    ELSE IF allKeys = <<>> THEN located([call EXCEPT !.allKeys = allKeys], <<>>)
         ELSE [call EXCEPT !.allKeys = allKeys, !.pc = "head", !.i = 1]

\* repository.get(id), .delete(id) or .list() is called: its first list command
\* goes out (the calls are numbered in the order they are made)
Start(c, op, r, id) ==
  /\ calls[c].pc = "idle"
  /\ \A d \in Invocations : d < c => calls[d].pc # "idle"
  /\ calls' = [calls EXCEPT ![c] =
                 [NoCall EXCEPT !.op = op, !.repo = r, !.id = id, !.pc = "list"]]
  /\ UNCHANGED <<s3, now, repos, last, task, handler, norm>>

\* listObjectKeys as it would be if it returned after its first page
ListPage_FirstPageOnly(c, maxKeys) ==
  LET call == calls[c]
      turn(response) ==
        listed(answered(call),
               call.allKeys \o [i \in 1..Len(response.Contents) |->
                                  response.Contents[i].Key])
  IN /\ call.pc = "list"
     /\ calls' = [calls EXCEPT ![c] =
                    turn(ListObjectsV2(locateClient(call), repos[call.repo].prefix,
                                       call.token, maxKeys))]
     /\ UNCHANGED <<s3, now, repos, last, task, handler, norm>>

\* listObjectKeys: one turn of the do/while loop
ListPage(c, maxKeys) ==
  LET call == calls[c]
      turn(response) ==
        LET results == call.allKeys \o [i \in 1..Len(response.Contents) |->
                                          response.Contents[i].Key]
        IN IF response.NextContinuationToken # Undefined
             THEN [answered(call) EXCEPT !.allKeys = results,
                                         !.token = response.NextContinuationToken]
             ELSE listed(answered(call), results)
  IN /\ call.pc = "list"
     /\ calls' = [calls EXCEPT ![c] =
                    turn(ListObjectsV2(locateClient(call), repos[call.repo].prefix,
                                       call.token, maxKeys))]
     /\ UNCHANGED <<s3, now, repos, last, task, handler, norm>>

\* findObjectsByMetadata as it would be if it stopped at the first match
HeadKey_StopAtFirstMatch(c) ==
  LET call == calls[c]
      candidate == call.allKeys[call.i]
      matches == <<"id", call.id>> \in HeadObject(locateClient(call), candidate).Metadata
  IN /\ call.pc = "head"
     /\ calls' = [calls EXCEPT ![c] =
                    IF ~HasKey(locateClient(call), candidate)
                      THEN done(answered(call), Thrown(NotFound))
                    ELSE IF matches
                      THEN located(answered(call), Append(call.keys, candidate))
                    ELSE IF call.i < Len(call.allKeys)
                      THEN [answered(call) EXCEPT !.i = @ + 1]
                    ELSE located(answered(call), call.keys)]
     /\ UNCHANGED <<s3, now, repos, last, task, handler, norm>>

\* findObjectsByMetadata: one turn of the loop over the candidates
HeadKey(c) ==
  LET call == calls[c]
      candidate == call.allKeys[call.i]
      results == IF <<"id", call.id>> \in HeadObject(locateClient(call), candidate).Metadata
                   THEN Append(call.keys, candidate)
                   ELSE call.keys
  IN /\ call.pc = "head"
     /\ calls' = [calls EXCEPT ![c] =
                    IF ~HasKey(locateClient(call), candidate)
                      THEN done(answered(call), Thrown(NotFound))
                    ELSE IF call.i < Len(call.allKeys)
                      THEN [answered(call) EXCEPT !.keys = results, !.i = @ + 1]
                    ELSE located(answered(call), results)]
     /\ UNCHANGED <<s3, now, repos, last, task, handler, norm>>

\* fetchByKey as it would be if reading an object consumed it
GetBody_Consumes(c) ==
  /\ calls[c].pc = "get"
  /\ s3' = [s3 EXCEPT ![repos[calls[c].repo].client] =
              DeleteObjects(@, {pending(calls[c]).arg})]
  /\ calls' = [calls EXCEPT ![c] =
                 done(answered(@), fetchByKey(repos[calls[c].repo].client,
                                              pending(calls[c]).arg))]
  /\ UNCHANGED <<now, repos, last, task, handler, norm>>

\* fetchByKey: of get for the one located key, of list for one of the listed keys
GetBody(c) ==
  LET call == calls[c]
      read(result) ==
        IF call.op = "get" \/ result.threw THEN done(answered(call), result)
        ELSE IF call.i < Len(call.allKeys)
          THEN [answered(call) EXCEPT !.fetched = Append(@, result.value), !.i = @ + 1]
        ELSE [done(answered(call), Returned(JNull))
                EXCEPT !.fetched = Append(@, result.value),
                       !.values = compact(Append(call.fetched, result.value))]
  IN /\ call.pc = "get"
     /\ calls' = [calls EXCEPT ![c] =
                    read(fetchByKey(repos[call.repo].client, pending(call).arg))]
     /\ UNCHANGED <<s3, now, repos, last, task, handler, norm>>

\* deleteObject: one turn of the loop over the located keys; the store answers
\* the delete of a key that is not there like any other
Remove(c) ==
  LET call == calls[c]
  IN /\ call.pc = "delete"
     /\ s3' = [s3 EXCEPT ![repos[call.repo].client] =
                 DeleteObjects(@, {call.keys[call.i]})]
     /\ calls' = [calls EXCEPT ![c] =
                    IF call.i < Len(call.keys) THEN [answered(call) EXCEPT !.i = @ + 1]
                    ELSE done(answered(call), Returned(JNull))]
     /\ UNCHANGED <<now, repos, last, task, handler, norm>>

\* a save made before the calls: its one PutObjectCommand
SaveCall(r, id, data) ==
  LET client == repos[r].client
      command == saveObject(client, repos[r].prefix, id, data, now)
  IN /\ \A c \in Invocations : calls[c].pc = "idle"
     /\ HasRoom(client, command.Key)
     /\ s3' = [s3 EXCEPT ![client] =
                 PutObject(@, command.Key, command.Body, command.Metadata,
                           [by |-> r, at |-> now, data |-> data])]
     /\ UNCHANGED <<now, repos, last, calls, task, handler, norm>>

\* a rejected command as it would be handled by a call that sends it again
Reject_Retry(c) ==
  /\ calls[c].pc \in {"list", "head", "get", "delete", "put"}
  /\ ~calls[c].rejected
  /\ calls' = [calls EXCEPT ![c] = [answered(@) EXCEPT !.rejected = TRUE]]
  /\ UNCHANGED <<s3, now, repos, last, task, handler, norm>>

\* client.send rejects with an error of the transport
\* (Reject_Retry above is the same rejection met by a call that sends again)
Reject(c) ==
  /\ calls[c].pc \in {"list", "head", "get", "delete", "put"}
  /\ calls' = [calls EXCEPT ![c] =
                 [done(answered(@), Thrown(TransportError)) EXCEPT !.rejected = TRUE]]
  /\ UNCHANGED <<s3, now, repos, last, task, handler, norm>>

NextSteps ==
  \/ \E c \in Invocations, r \in Repos, id \in Ids :
       \/ Start(c, "get", r, id)
       \/ Start(c, "delete", r, id)
  \/ \E c \in Invocations, r \in Repos : Start(c, "list", r, <<>>)
  \/ \E c \in Invocations, maxKeys \in 1..MaxPageSize : ListPage(c, maxKeys)
  \/ \E c \in Invocations : HeadKey(c)
  \/ \E c \in Invocations : GetBody(c)
  \/ \E c \in Invocations : Remove(c)
  \/ \E r \in Repos, id \in Ids, data \in Payloads : SaveCall(r, id, data)

SpecSteps == Init /\ [][NextSteps]_vars

\* the calls made before call c have returned or thrown
Sequential(c) == \A d \in Invocations : d < c => calls[d].pc = "done"

\* the calls made one after the other, against a store that may fail any command
NextFaults ==
  \/ \E c \in Invocations, r \in Repos, id \in Ids :
       \/ Sequential(c) /\ Start(c, "get", r, id)
       \/ Sequential(c) /\ Start(c, "delete", r, id)
  \/ \E c \in Invocations, r \in Repos : Sequential(c) /\ Start(c, "list", r, <<>>)
  \/ \E c \in Invocations, maxKeys \in 1..MaxPageSize : ListPage(c, maxKeys)
  \/ \E c \in Invocations : HeadKey(c)
  \/ \E c \in Invocations : GetBody(c)
  \/ \E c \in Invocations : Remove(c)
  \/ \E r \in Repos, id \in Ids, data \in Payloads : SaveCall(r, id, data)
  \/ \E c \in Invocations : Reject(c)

SpecFaults == Init /\ [][NextFaults]_vars

(***************************************************************************)
(* save as a call: the key and the command are built when save is called,  *)
(* the store answers the one PutObjectCommand or rejects it                *)
(***************************************************************************)
\* repository.save(id, data) is called: its PutObjectCommand goes out
StartSave(c, r, id, data) ==
  /\ calls[c].pc = "idle"
  /\ Sequential(c)
  /\ HasRoom(repos[r].client,
             saveObject(repos[r].client, repos[r].prefix, id, data, now).Key)
  /\ calls' = [calls EXCEPT ![c] =
                 [NoCall EXCEPT !.op = "save", !.repo = r, !.id = id,
                                !.data = data, !.at = now, !.pc = "put"]]
  /\ UNCHANGED <<s3, now, repos, last, task, handler, norm>>

\* saveObject as it would be if it cleared the objects saved for the id on
\* other days
Put_ReplacesOtherDays(c) ==
  LET call == calls[c]
      client == repos[calls[c].repo].client
      command == saveObject(repos[calls[c].repo].client, repos[calls[c].repo].prefix,
                            calls[c].id, calls[c].data, calls[c].at)
  IN /\ call.pc = "put"
     /\ s3' = [s3 EXCEPT ![client] =
                 PutObject(SelectSeq(@, LAMBDA o : command.Metadata # o.Metadata),
                           command.Key, command.Body, command.Metadata,
                           [by |-> call.repo, at |-> call.at, data |-> call.data])]
     /\ calls' = [calls EXCEPT ![c] = done(answered(call), Returned(JNull))]
     /\ UNCHANGED <<now, repos, last, task, handler, norm>>

\* saveObject: the store answers the PutObjectCommand
Put(c) ==
  LET call == calls[c]
      client == repos[calls[c].repo].client
      command == saveObject(repos[calls[c].repo].client, repos[calls[c].repo].prefix,
                            calls[c].id, calls[c].data, calls[c].at)
  IN /\ call.pc = "put"
     /\ s3' = [s3 EXCEPT ![client] =
                 PutObject(@, command.Key, command.Body, command.Metadata,
                           [by |-> call.repo, at |-> call.at, data |-> call.data])]
     /\ calls' = [calls EXCEPT ![c] = done(answered(call), Returned(JNull))]
     /\ UNCHANGED <<now, repos, last, task, handler, norm>>

\* saves made one after the other, on one day or another, against a store
\* that may fail the put
NextSave ==
  \/ \E c \in Invocations, r \in Repos, id \in Ids, data \in Payloads :
       StartSave(c, r, id, data)
  \/ \E c \in Invocations : Put(c)
  \/ \E c \in Invocations : Reject(c)
  \/ Tick

SpecSave == Init /\ [][NextSave]_vars

(***************************************************************************)
(* Deletes cut short: the stores hold objects put there beforehand, at     *)
(* either endpoint, and any command of a delete may be rejected            *)
(***************************************************************************)
PreloadKeys == {<<"a", "/", k>> : k \in {"x", "y", "z"}}
Preloaded == {[Body |-> JSONstringify(JNum(1)), Metadata |-> {<<"id", <<"x">>>>}]}

\* an object put into a store before the calls are made
Preload(client, Key, object) ==
  /\ \A c \in Invocations : calls[c].pc = "idle"
  /\ ObjectCount < MaxPreloaded
  /\ ~HasKey(client, Key)
  /\ s3' = [s3 EXCEPT ![client] = PutObject(@, Key, object.Body, object.Metadata,
                                      [by |-> 0, at |-> now, data |-> JNull])]
  /\ UNCHANGED <<now, repos, last, calls, task, handler, norm>>

NextPartial ==
  \/ \E client \in Clients, k \in PreloadKeys, object \in Preloaded :
       Preload(client, k, object)
  \/ \E c \in Invocations, r \in Repos, id \in Ids :
       Sequential(c) /\ Start(c, "delete", r, id)
  \/ \E c \in Invocations, maxKeys \in 1..MaxPageSize : ListPage(c, maxKeys)
  \/ \E c \in Invocations : HeadKey(c)
  \/ \E c \in Invocations : Remove(c)
  \/ \E c \in Invocations : Reject(c)

SpecPartial == Init /\ [][NextPartial]_vars

(***************************************************************************)
(* TaskDefinition: containers and shared volumes added in any order        *)
(***************************************************************************)
\* taskDefinition.addContainer(id, props); the construct tree refuses an id
\* it already holds
AddContainer(id) ==
  /\ Len(task.containers) < MaxContainers
  /\ \A i \in 1..Len(task.containers) : task.containers[i].id # id
  /\ task' = addContainer(task, id)
  /\ UNCHANGED <<s3, now, repos, last, calls, handler, norm>>

\* taskDefinition.addSharedVolume({containerPath, name})
AddSharedVolume(containerPath, name) ==
  /\ Len(task.sharedVolumes) < MaxVolumes
  /\ task' = addSharedVolume(task, containerPath, name)
  /\ UNCHANGED <<s3, now, repos, last, calls, handler, norm>>

NextTask ==
  \/ \E id \in ContainerIds : AddContainer(id)
  \/ \E containerPath \in ContainerPaths, name \in VolumeNames :
       AddSharedVolume(containerPath, name)

SpecTask == Init /\ [][NextTask]_vars

(***************************************************************************)
(* sqsToSfnHandler: one invocation of the handler                          *)
(***************************************************************************)
\* the lambda is invoked with an event
Invoke(option, event) ==
  /\ handler.pc = "idle"
  /\ handler' = nextRecord([handler EXCEPT !.getInput = option, !.Records = event], 1)
  /\ UNCHANGED <<s3, now, repos, last, calls, task, norm>>

\* the step function answers the StartExecutionCommand: the execution is started
StartExecution ==
  /\ handler.pc = "send"
  /\ handler' = nextRecord([handler EXCEPT !.started = Append(@, handler.input)],
                           handler.i + 1)
  /\ UNCHANGED <<s3, now, repos, last, calls, task, norm>>

\* client.send rejects: no execution is started
RejectStart ==
  /\ handler.pc = "send"
  /\ handler' = [handler EXCEPT !.pc = "done", !.threw = TRUE, !.error = TransportError]
  /\ UNCHANGED <<s3, now, repos, last, calls, task, norm>>

NextHandler ==
  \/ \E option \in GetInputOptions, event \in Events : Invoke(option, event)
  \/ StartExecution
  \/ RejectStart

SpecHandler == Init /\ [][NextHandler]_vars

(***************************************************************************)
(* normalizePrefix applied to a prefix, and to its own result              *)
(***************************************************************************)
\* prefixes: strings of a and / that begin with a
Prefixes ==
  UNION {{<<"a">> \o rest : rest \in [1..n -> {"a", "/"}]} : n \in 0..(MaxPrefixLen - 1)}

Normalize(prefix) ==
  /\ norm' = [prefix |-> prefix, normalized |-> normalizePrefix(prefix),
              again |-> normalizePrefix(normalizePrefix(prefix))]
  /\ UNCHANGED <<s3, now, repos, last, calls, task, handler>>

NextPrefix == \E prefix \in Prefixes \cup {Undefined} : Normalize(prefix)

SpecPrefix == Init /\ [][NextPrefix]_vars

(***************************************************************************)
(* Vocabulary of the properties                                            *)
(***************************************************************************)
\* the store the client of repository r talks to
StoreOf(r) == s3[repos[r].client]

\* the objects of a store under a repository prefix (normalized: the objects
\* of prefix a are those under a/, not those under ab/)
Under(store, prefix) ==
  {store[i] : i \in {j \in 1..Len(store) :
                       startsWith(store[j].Key, normalizePrefix(prefix))}}

\* those of them that carry metadata.id = id
Carrying(store, prefix, id) ==
  {object \in Under(store, prefix) : <<"id", id>> \in object.Metadata}

MultipleObjectsFound(id) == <<"Multiple objects found with id: ">> \o id

\* the step is a call of op
Calls(op) == last'.op = op

\* the step is a call of op on the repository and id of the call before it
Follows(op, before) ==
  /\ last.op = before
  /\ last'.op = op
  /\ last'.repo = last.repo
  /\ last'.id = last.id

(***************************************************************************)
(* C1: round trip. A get(id) that directly follows save(id, data) on the   *)
(* same repository, when the saved object is the only one under the prefix*)
(* that carries metadata.id = id, returns a value equal to data.           *)
(***************************************************************************)
C1_RoundTrip ==
  [][(/\ Follows("get", "save")
      /\ Cardinality(Carrying(StoreOf(last.repo), repos[last.repo].prefix, last.id)) = 1)
     => (~last'.threw /\ last'.value = last.data)]_vars

(***************************************************************************)
(* C2: a get(id) whose locate step finds more than one object carrying     *)
(* metadata.id = id throws the multiple-objects error naming id; it        *)
(* returns neither a body nor the absent marker.                           *)
(***************************************************************************)
C2_MultipleObjectsRejected ==
  (last.op = "get" /\ Len(last.keys) > 1)
    => (last.threw /\ last.error = MultipleObjectsFound(last.id))

\* a get has located two objects of one id and thrown
C2_Witness ==
  /\ last.op = "get"
  /\ Len(last.keys) = 2
  /\ last.threw

SavedFor(store, r, id) ==
  {object \in Range(store) : object.History.by = r /\ <<"id", id>> \in object.Metadata}

\* the located keys of the last call are in no store
LocatedKeysGone ==
  \A i \in 1..Len(last.keys) : \A c \in Clients : ~HasKey(c, last.keys[i])

(***************************************************************************)
(* C4: a delete(id) whose locate step finds one or more objects deletes    *)
(* every located key: when it has returned, the located keys are gone, no  *)
(* object under the prefix carries metadata.id = id, and a get(id) that    *)
(* follows returns the absent marker.                                      *)
(***************************************************************************)
C4_AfterDelete ==
  (last.op = "delete" /\ Len(last.keys) >= 1 /\ ~last.threw)
    => (/\ LocatedKeysGone
        /\ Carrying(StoreOf(last.repo), repos[last.repo].prefix, last.id) = {})

C4_DeleteRemovesLocated ==
  [][/\ Calls("delete") => C4_AfterDelete'
     /\ (Follows("get", "delete") /\ Len(last.keys) >= 1 /\ ~last.threw)
          => (~last'.threw /\ last'.value = JNull)]_vars

(***************************************************************************)
(* C5: a save of an id that the repository saved on an earlier UTC day     *)
(* leaves the older object in place, so that two objects under the prefix  *)
(* carry metadata.id = id, and a get(id) that follows fails with the       *)
(* multiple-objects error.                                                 *)
(***************************************************************************)
C5_TwoDaysTwoObjects ==
  [][/\ Calls("save") =>
          \A old \in SavedFor(StoreOf(last'.repo), last'.repo, last'.id) :
            old.History.at < now =>
              /\ old \in Range(s3'[repos[last'.repo].client])
              /\ Cardinality(Carrying(s3'[repos[last'.repo].client],
                                      repos[last'.repo].prefix, last'.id)) >= 2
     /\ (/\ Follows("get", "save")
         /\ \E old \in SavedFor(StoreOf(last.repo), last.repo, last.id) :
              old.History.at < now)
          => (last'.threw /\ last'.error = MultipleObjectsFound(last'.id))]_vars

(***************************************************************************)
(* C6: save overwrites. After a save of an id for which an object saved    *)
(* earlier through the repository is still stored, whenever that earlier   *)
(* save was made, exactly one object for the id exists and a get(id) that  *)
(* follows returns the data of the later save.                             *)
(***************************************************************************)
C6_SaveOverwrites ==
  [][/\ (Calls("save") /\ SavedFor(StoreOf(last'.repo), last'.repo, last'.id) # {})
          => Cardinality(Carrying(s3'[repos[last'.repo].client],
                                  repos[last'.repo].prefix, last'.id)) = 1
     /\ (/\ Follows("get", "save")
         /\ \E old \in SavedFor(StoreOf(last.repo), last.repo, last.id) :
              old.Key # last.key)
          => (~last'.threw /\ last'.value = last.data)]_vars

(***************************************************************************)
(* C7, as claimed: every save adds one physical object under the prefix    *)
(* and leaves every object stored before it as it was.                     *)
(***************************************************************************)
C7_SaveAlwaysAdds ==
  [][Calls("save") =>
       /\ Cardinality(Under(s3'[repos[last'.repo].client], repos[last'.repo].prefix))
            = Cardinality(Under(StoreOf(last'.repo), repos[last'.repo].prefix)) + 1
       /\ Range(StoreOf(last'.repo)) \subseteq Range(s3'[repos[last'.repo].client])]_vars

(***************************************************************************)
(* C7, amended: save looks for no prior object. A save of an id that the   *)
(* repository has not saved on the same UTC day (or whose object of that   *)
(* day was deleted) adds exactly one object; a save of an id saved on the  *)
(* same UTC day replaces the object of that day and adds none. Either way  *)
(* every other object, those of the same id saved on earlier days          *)
(* included, stays as it was.                                              *)
(***************************************************************************)
C7_SaveAddsOrReplaces ==
  [][Calls("save") =>
       LET before == StoreOf(last'.repo)
           after == s3'[repos[last'.repo].client]
           sameDay == {object \in SavedFor(before, last'.repo, last'.id) :
                         object.History.at = now}
       IN /\ Cardinality(sameDay) <= 1
          /\ Range(before) \ sameDay \subseteq Range(after)
          /\ Len(after) = Len(before) + (IF sameDay = {} THEN 1 ELSE 0)
          /\ Cardinality(SavedFor(after, last'.repo, last'.id))
               = Cardinality(SavedFor(before, last'.repo, last'.id) \ sameDay) + 1]_vars

\* a save has left in place the object the repository saved for the id a day earlier
C7_Witness ==
  /\ last.op = "save"
  /\ \E old \in SavedFor(StoreOf(last.repo), last.repo, last.id) : old.History.at < now
  /\ \E new \in SavedFor(StoreOf(last.repo), last.repo, last.id) :
       new.History.at = now /\ new.Key = last.key

\* the object stored under Key in some store was saved through a repository
\* other than r
Foreign(r, Key) ==
  \E c \in Clients : HasKey(c, Key) /\ ObjectAt(c, Key).History.by \in Repos \ {r}

(***************************************************************************)
(* C8: prefix isolation. Of two repositories with different prefixes on    *)
(* one bucket, list() of one returns no document saved through the other,  *)
(* get(id) of one neither returns nor is failed by an object saved through *)
(* the other, and delete(id) of one removes no object saved through the    *)
(* other.                                                                  *)
(***************************************************************************)
C8_ListOwn ==
  (last.op = "list" /\ ~last.threw)
    => \A i \in 1..Len(last.keys) :
         (HasKey(repos[last.repo].client, last.keys[i])
            /\ Truthy(ObjectAt(repos[last.repo].client, last.keys[i]).History.data))
           => ~Foreign(last.repo, last.keys[i])

C8_GetOwn ==
  (last.op = "get" /\ (last.threw \/ last.value # JNull))
    => \A i \in 1..Len(last.keys) : ~Foreign(last.repo, last.keys[i])

C8_PrefixIsolation ==
  [][/\ Calls("list") => C8_ListOwn'
     /\ Calls("get") => C8_GetOwn'
     /\ Calls("delete") =>
          \A c \in Clients : \A object \in Range(s3[c]) :
            object.History.by \in Repos \ {last'.repo} => object \in Range(s3'[c])]_vars

\* how often v occurs in a sequence
Occurrences(seq, v) == Cardinality({i \in 1..Len(seq) : seq[i] = v})

(***************************************************************************)
(* C9: listing completeness. list() returns exactly the documents saved    *)
(* through the repository and not deleted since, one per physical object,  *)
(* whatever the page size of the store.                                    *)
(***************************************************************************)
C9_ListComplete ==
  last.op = "list"
    => LET saved == {object \in Range(StoreOf(last.repo)) :
                       object.History.by = last.repo}
       IN /\ ~last.threw
          /\ Len(last.values) = Cardinality(saved)
          /\ \A v \in Payloads :
               Occurrences(last.values, v)
                 = Cardinality({object \in saved : object.History.data = v})

(***************************************************************************)
(* C10: a get(id) for an id that no object under the prefix carries as     *)
(* metadata.id returns the absent marker and throws nothing, whatever the  *)
(* store holds.                                                            *)
(***************************************************************************)
C10_AbsentIsNull ==
  (/\ last.op = "get"
   /\ Carrying(StoreOf(last.repo), repos[last.repo].prefix, last.id) = {})
    => (~last.threw /\ last.value = JNull)

(***************************************************************************)
(* C11: idempotent delete. A delete(id) called while no object under the   *)
(* prefix carries metadata.id = id returns without error and leaves the    *)
(* store as it was, and of two delete(id) calls made one after the other   *)
(* neither throws.                                                         *)
(***************************************************************************)
C11_IdempotentDelete ==
  [][/\ (/\ Calls("delete")
         /\ Carrying(StoreOf(last'.repo), repos[last'.repo].prefix, last'.id) = {})
          => (~last'.threw /\ s3' = s3)
     /\ Follows("delete", "delete") => (~last.threw /\ ~last'.threw)]_vars

(***************************************************************************)
(* C15: list() drops the keys whose body does not parse: with a malformed  *)
(* body in the store, list() throws nothing and returns the documents of   *)
(* all other listed keys.                                                  *)
(***************************************************************************)
C15_ListDropsMalformed ==
  (/\ last.op = "list"
   /\ \E i \in 1..Len(last.keys) :
        ~JSONparse(ObjectAt(repos[last.repo].client, last.keys[i]).Body).ok)
    => /\ ~last.threw
       /\ \A i \in 1..Len(last.keys) :
            LET parsed == JSONparse(ObjectAt(repos[last.repo].client, last.keys[i]).Body)
            IN parsed.ok => Occurrences(last.values, parsed.v) >= 1

\* the partition path of each clock reading of Calendar
DatePath ==
  << <<"y", "e", "a", "r", "=", "2", "0", "2", "4", "/",
       "m", "o", "n", "t", "h", "=", "1", "2", "/", "d", "a", "y", "=", "3", "1">>,
     <<"y", "e", "a", "r", "=", "2", "0", "2", "5", "/",
       "m", "o", "n", "t", "h", "=", "1", "/", "d", "a", "y", "=", "1">> >>

\* the prefix as it stands before the first segment of a key
KeyPrefix(prefix) ==
  IF prefix = Undefined THEN <<>>
  ELSE IF prefix[Len(prefix)] = "/" THEN prefix
  ELSE Append(prefix, "/")

C17_BareKey ==
  last.op = "save" => last.key = KeyPrefix(repos[last.repo].prefix) \o last.id

\* the part of a key behind its last separator
RECURSIVE FinalSegment(_)
FinalSegment(Key) ==
  IF \E i \in 1..Len(Key) : Key[i] = "/"
    THEN FinalSegment(Tail(Key))
    ELSE Key

C20_SharedVolumesMounted ==
  \A i \in 1..Len(task.containers) :
    /\ Len(task.containers[i].mountPoints) = Len(task.sharedVolumes)
    /\ \A v \in Range(task.sharedVolumes) :
         /\ ~v.readOnly
         /\ Occurrences(task.containers[i].mountPoints, v)
              = Occurrences(task.sharedVolumes, v)
    /\ \A j \in 1..Len(task.sharedVolumes) :
         [name |-> task.sharedVolumes[j].sourceVolume]
           \in Range(task.taskDefinition.volumes)

\* two containers and two volumes of different paths have been added
C20_Witness ==
  /\ Len(task.containers) = 2
  /\ Len(task.sharedVolumes) = 2
  /\ task.sharedVolumes[1].containerPath # task.sharedVolumes[2].containerPath

(***************************************************************************)
(* C12: get never surfaces not-found. Whatever deletions run between the   *)
(* commands of a get(id), the get returns the document or the absent       *)
(* marker; it does not fail with a not-found error.                        *)
(***************************************************************************)
C12_GetNeverNotFound ==
  \A c \in Invocations :
    (calls[c].op = "get" /\ calls[c].pc = "done")
      => ~(calls[c].threw /\ calls[c].error = NotFound)

(***************************************************************************)
(* C13: two delete(id) calls in flight together on an id that has one      *)
(* object both return without error, however their list, head and delete   *)
(* commands interleave.                                                    *)
(***************************************************************************)
C13_ConcurrentDeletes ==
  \A c, d \in Invocations :
    (/\ c # d
     /\ calls[c].op = "delete" /\ calls[d].op = "delete"
     /\ calls[c].repo = calls[d].repo /\ calls[c].id = calls[d].id
     /\ calls[c].pc = "done" /\ calls[d].pc = "done"
     /\ Len(calls[c].allKeys) = 1 /\ calls[d].allKeys = calls[c].allKeys)
      => (~calls[c].threw /\ ~calls[d].threw)

(***************************************************************************)
(* C14: a list() one of whose listed keys is deleted before its body is    *)
(* fetched returns without error the documents of all other listed keys    *)
(* and leaves out only the one that vanished.                              *)
(***************************************************************************)
C14_ListSkipsVanished ==
  \A c \in Invocations :
    (/\ calls[c].op = "list" /\ calls[c].pc = "done"
     /\ \E i \in 1..Len(calls[c].fetched) : calls[c].fetched[i] = JNull)
      => /\ ~calls[c].threw
         /\ calls[c].values = SelectSeq(calls[c].fetched, LAMBDA v : v # JNull)

(***************************************************************************)
(* C19: no retry. A command that the transport fails, while listing keys,  *)
(* reading metadata, fetching the body for get or removing a key for       *)
(* delete, ends the call with that error, and the call has sent the failed *)
(* command once.                                                           *)
(***************************************************************************)
C19_NoRetry ==
  \A c \in Invocations :
    calls[c].rejected
      => /\ calls[c].pc = "done"
         /\ calls[c].threw
         /\ calls[c].error = TransportError
         /\ Occurrences(calls[c].sent, calls[c].sent[Len(calls[c].sent)]) = 1

\* a delete has listed and read metadata, and the removal of a key has failed
C19_Witness ==
  \E c \in Invocations :
    /\ calls[c].op = "delete"
    /\ calls[c].rejected
    /\ calls[c].sent[Len(calls[c].sent)].cmd = "DeleteObject"
    /\ Len(calls[c].sent) >= 3

(***************************************************************************)
(* C21: sqsToSfnHandler starts one execution per record, in record order,  *)
(* and awaits each start before it takes the next record; when a record    *)
(* does not parse or a start fails the handler throws, and no execution is *)
(* started for that record or any later one.                               *)
(***************************************************************************)
C21_OneExecutionPerRecord ==
  /\ Len(handler.started) <= Len(handler.Records)
  /\ \A j \in 1..Len(handler.started) :
       /\ JSONparse(handler.Records[j].body).ok
       /\ handler.started[j]
            = JSONstringify(getInput(handler.getInput,
                                     JSONparse(handler.Records[j].body).v))
  /\ handler.pc = "send" => handler.i = Len(handler.started) + 1
  /\ (handler.pc = "done" /\ ~handler.threw)
       => Len(handler.started) = Len(handler.Records)
  /\ (handler.pc = "done" /\ handler.threw)
       => /\ Len(handler.started) < Len(handler.Records)
          /\ handler.error = JSONSyntaxError
               <=> ~JSONparse(handler.Records[Len(handler.started) + 1].body).ok

\* the second of three records does not parse: one execution, then the throw
C21_Witness ==
  /\ handler.pc = "done"
  /\ handler.threw
  /\ handler.error = JSONSyntaxError
  /\ Len(handler.Records) = 3
  /\ Len(handler.started) = 1
  /\ JSONparse(handler.Records[3].body).ok

(***************************************************************************)
(* C27: prefix normalization. The normalized form of a non-empty prefix,   *)
(* with no, one or several trailing separators, ends with exactly one      *)
(* separator; an absent prefix gives the empty string; and a normalized    *)
(* prefix is normalized to itself.                                         *)
(***************************************************************************)
C27_ExactlyOneSeparator ==
  /\ norm.prefix = Undefined => norm.normalized = <<>>
  /\ norm.prefix # Undefined
       => /\ norm.normalized[Len(norm.normalized)] = "/"
          /\ norm.normalized[Len(norm.normalized) - 1] # "/"
  /\ norm.again = norm.normalized

(***************************************************************************)
(* C22: every command sent for a get, delete or list of a repository goes  *)
(* through the client the repository was constructed with, the listing and *)
(* the metadata reads of the locate step included.                         *)
(***************************************************************************)
C22_InjectedClient ==
  \A c \in Invocations : \A k \in 1..Len(calls[c].sent) :
    calls[c].sent[k].client = repos[calls[c].repo].client

(***************************************************************************)
(* C28: get and list are read-only. No step of a get or of a list, whether *)
(* the call returns or throws, changes the keys of a store or the body or  *)
(* metadata of an object, and such a call sends no put and no delete.      *)
(***************************************************************************)
C28_ReadOnly ==
  [][\A c \in Invocations :
       (calls'[c] # calls[c] /\ calls'[c].op \in {"get", "list"})
         => /\ s3' = s3
            /\ \A k \in 1..Len(calls'[c].sent) :
                 calls'[c].sent[k].cmd \in {"ListObjectsV2", "HeadObject", "GetObject"}]_vars

\* a get has read the body of the object it located and returned the document
C28_Witness ==
  \E c \in Invocations :
    /\ calls[c].op = "get"
    /\ calls[c].pc = "done"
    /\ ~calls[c].threw
    /\ calls[c].value # JNull
    /\ HasKey(repos[calls[c].repo].client, calls[c].keys[1])

(***************************************************************************)
(* C29: delete(id) removes only objects whose metadata id is id: every     *)
(* object of any store that does not carry metadata.id = id, under the     *)
(* prefix or outside it, is there unchanged after the call.                *)
(***************************************************************************)
C29_DeleteOnlyId ==
  [][Calls("delete")
       => \A client \in Clients : \A object \in Range(s3[client]) :
            <<"id", last'.id>> \notin object.Metadata
              => object \in Range(s3'[client])]_vars

(***************************************************************************)
(* C30: on a static store list() returns as many documents as it lists     *)
(* keys, whatever the stored payloads are, falsy ones (null, false, 0, "") *)
(* included.                                                               *)
(***************************************************************************)
C30_ListCountsKeys ==
  (last.op = "list" /\ ~last.threw) => Len(last.values) = Len(last.keys)

(***************************************************************************)
(* C23: paginated lister. When listObjectKeys returns, on a store that did *)
(* not change during the call, it has sent one list command per page: the  *)
(* first without a token, each later one with the token of the response    *)
(* before it (tokens advance through the keys), none after the response    *)
(* without a token; and it returns every key that starts with the prefix   *)
(* exactly once, in page order, whatever the size of each page. When no    *)
(* key matches it returns the empty sequence after one command.            *)
(***************************************************************************)
\* the list commands a call has sent
ListCommands(call) == SelectSeq(call.sent, LAMBDA m : m.cmd = "ListObjectsV2")

\* the keys of a client's store that start with prefix, in the store's order
KeysStarting(client, prefix) ==
  LET objects == SelectSeq(s3[client], LAMBDA o :
                   prefix = Undefined \/ startsWith(o.Key, prefix))
  IN [i \in 1..Len(objects) |-> objects[i].Key]

SentKeys(call, cmd) ==
  LET commands == SelectSeq(call.sent, LAMBDA m : m.cmd = cmd)
  IN [k \in 1..Len(commands) |-> commands[k].arg]

C24_MetadataLocator ==
  [][\A c \in Invocations :
       (/\ calls[c].pc \in {"list", "head"}
        /\ calls'[c].pc \notin {"list", "head"}
        /\ calls'[c].op \in {"get", "delete"}
        /\ ~calls'[c].rejected)
         => LET call == calls'[c]
                client == locateClient(calls'[c])
                under == KeysStarting(locateClient(calls'[c]), repos[calls'[c].repo].prefix)
            IN /\ call.keys = SelectSeq(under, LAMBDA Key :
                                 <<"id", call.id>> \in ObjectAt(client, Key).Metadata)
               /\ SentKeys(call, "HeadObject") = under
               /\ SentKeys(call, "GetObject") = <<>>]_vars

\* two of the keys under the prefix carry the id, and both were located
C24_Witness ==
  \E c \in Invocations :
    /\ calls[c].op \in {"get", "delete"}
    /\ calls[c].pc \notin {"idle", "list", "head"}
    /\ ~calls[c].rejected
    /\ Len(calls[c].keys) = 2
    /\ Len(SentKeys(calls[c], "HeadObject")) = 2

\* of two keys under the prefix one carries the id: both were read, one located
C24_WitnessOneOfTwo ==
  \E c \in Invocations :
    /\ calls[c].op \in {"get", "delete"}
    /\ calls[c].pc \notin {"idle", "list", "head"}
    /\ ~calls[c].rejected
    /\ Len(calls[c].keys) = 1
    /\ Len(SentKeys(calls[c], "HeadObject")) = 2

(***************************************************************************)
(* C25: save(id, data) sends exactly one command, a put that carries the   *)
(* body and metadata.id together, and no list, metadata read, get or       *)
(* delete. The put changes no key other than the one it writes. When the   *)
(* put is rejected the store is left as it was, without a partial object,  *)
(* and the error reaches the caller.                                       *)
(***************************************************************************)
\* apart from key at client, the stores before and after the step are the same
OnlyKeyChanged(client, key) ==
  \A other \in Clients :
    /\ \A object \in Range(s3[other]) :
         (other # client \/ object.Key # key) => object \in Range(s3'[other])
    /\ \A object \in Range(s3'[other]) :
         (other # client \/ object.Key # key) => object \in Range(s3[other])

C25_SaveIsOnePut ==
  [][\A c \in Invocations :
       (calls'[c] # calls[c] /\ calls'[c].op = "save")
         => LET call == calls'[c]
                client == repos[calls'[c].repo].client
                key == saveObject(repos[calls'[c].repo].client, repos[calls'[c].repo].prefix,
                                  calls'[c].id, calls'[c].data, calls'[c].at).Key
            IN /\ \A k \in 1..Len(call.sent) : call.sent[k].cmd = "PutObject"
               /\ Len(call.sent) = (IF call.pc = "done" THEN 1 ELSE 0)
               /\ call.pc = "put" => s3' = s3
               /\ (call.pc = "done" /\ call.rejected)
                    => s3' = s3 /\ call.threw /\ call.error = TransportError
               /\ (call.pc = "done" /\ ~call.rejected)
                    => /\ ~call.threw
                       /\ OnlyKeyChanged(client, key)
                       /\ \E object \in Range(s3'[client]) :
                            /\ object.Key = key
                            /\ object.Body = JSONstringify(call.data)
                            /\ object.Metadata = {<<"id", call.id>>}]_vars

\* a save has put its object next to the one an earlier save put for the same
\* id on the day before
C25_Witness ==
  /\ calls[1].op = "save" /\ calls[1].pc = "done" /\ ~calls[1].rejected
  /\ calls[2].op = "save" /\ calls[2].pc = "done" /\ ~calls[2].rejected
  /\ calls[1].repo = calls[2].repo
  /\ calls[1].id = calls[2].id
  /\ calls[1].at < calls[2].at
  /\ Len(s3[repos[calls[2].repo].client]) = 2

\* a save whose put was rejected has thrown and left the store empty
C25_WitnessRejected ==
  \E c \in Invocations :
    /\ calls[c].op = "save" /\ calls[c].pc = "done" /\ calls[c].rejected
    /\ calls[c].threw
    /\ \A client \in Clients : s3[client] = <<>>

(***************************************************************************)
(* C26: partial delete. When delete(id) has located several keys and the   *)
(* store rejects one of its delete commands with an error of the transport,*)
(* the keys removed before it are gone, nothing else has changed (the keys *)
(* after it are where they were), and the error reaches the caller. A      *)
(* later delete(id) on the same repository that meets no error leaves no   *)
(* object carrying the id under the prefix in the repository's store.      *)
(***************************************************************************)
\* the call is a delete that located several keys and was cut short by a
\* rejected delete command
CutShort(call) ==
  /\ call.op = "delete"
  /\ call.pc = "done"
  /\ call.rejected
  /\ Len(call.keys) > 1
  /\ call.sent[Len(call.sent)].cmd = "DeleteObject"

C26_PartialDelete ==
  [][/\ \A c \in Invocations :
          (calls[c].op = "delete" /\ calls[c].pc = "delete" /\ calls'[c] # calls[c]
             /\ Len(calls[c].keys) > 1)
            => IF calls'[c].rejected
                 THEN /\ s3' = s3
                      /\ CutShort(calls'[c])
                      /\ calls'[c].threw
                      /\ calls'[c].error = TransportError
                      /\ \A k \in 1..(calls[c].i - 1) :
                           ~\E object \in Range(StoreOf(calls[c].repo)) :
                              object.Key = calls[c].keys[k]
                 ELSE OnlyKeyChanged(repos[calls[c].repo].client, calls[c].keys[calls[c].i])
     /\ (/\ CutShort(calls[1])
         /\ calls'[2].pc = "done" /\ calls[2].pc # "done"
         /\ calls'[2].op = "delete"
         /\ calls'[2].repo = calls[1].repo
         /\ calls'[2].id = calls[1].id
         /\ ~calls'[2].threw)
          => Carrying(s3'[repos[calls[1].repo].client], repos[calls[1].repo].prefix,
                      calls[1].id) = {}]_vars

====
